---- MODULE Spec2Model ----
(***************************************************************************)
(* State-machine model of rustplayer: src/src/app.rs (PlayerApp,           *)
(* AudioManager, Library), the main loop of src/src/main.rs and the list   *)
(* filter of src/src/tui.rs. Terminal I/O (event::poll, event::read,       *)
(* terminal.draw) is taken not to fail.                                    *)
(*                                                                         *)
(* Conventions                                                             *)
(*   Option<T>   None is <<>>, Some(x) is <<x>>.                           *)
(*   String      a tuple of one-character strings, <<"a","b">> is "ab".    *)
(*   Duration    an integer number of ticks, TicksPerSecond ticks to the   *)
(*               second, so that sub-second progress is representable.     *)
(*   f32 volume  an integer number of hundredths (1.0 is 100).             *)
(*   usize       UsizeMax stands for usize::MAX; the word is narrowed to   *)
(*               30 bits so that wrapped values stay inside TLC's integers.*)
(***************************************************************************)
EXTENDS Integers, Sequences, FiniteSets, TLC

None == <<>>
Some(x) == <<x>>
IsSome(o) == o # <<>>
UnwrapOr(o, d) == IF o = <<>> THEN d ELSE o[1]

\* ---------------------------------------------------------------- bounds
\* Largest value of playback_progress the model follows, in ticks.
MaxElapsed == 10
\* Largest frame time dt the model draws, in ticks.
MaxDt == 3
\* Longest search text the model types.
MaxQueryLen == 1
\* Largest selection index the model follows (only a wrapped len - 1 lets the
\* index grow past the library).
MaxSelected == 2
\* How many hundredths below the initial volume the model follows.
MaxVolumeDrop == 1
\* Longest search text when only the search popup is exercised.
MaxWideQueryLen == 2

\* ------------------------------------------------------- program constants
TicksPerSecond == 2
UsizeMax == 1073741823
SeekForwardSecs == 5
SeekBackwardSecs == 1
VolumeStep == 1
VolumeMax == 100
VolumeMin == 0

\* ------------------------------------------------------------------ strings
ToLowerChar(c) ==
    CASE c = "A" -> "a"
      [] c = "B" -> "b"
      [] c = "U" -> "u"
      [] c = "X" -> "x"
      [] c = "Y" -> "y"
      [] OTHER -> c

to_lowercase(s) == [i \in 1..Len(s) |-> ToLowerChar(s[i])]

\* str::contains: needle occurs as a contiguous substring of hay.
contains(hay, needle) ==
    \E i \in 0..(Len(hay) - Len(needle)) :
        SubSeq(hay, i + 1, i + Len(needle)) = needle

\* Byte value of the characters the model uses (ASCII).
CharCode(c) ==
    CASE c = "A" -> 65
      [] c = "B" -> 66
      [] c = "U" -> 85
      [] c = "W" -> 87
      [] c = "X" -> 88
      [] c = "Y" -> 89
      [] c = "a" -> 97
      [] c = "b" -> 98
      [] c = "k" -> 107
      [] c = "n" -> 110
      [] c = "o" -> 111
      [] c = "q" -> 113
      [] c = "w" -> 119
      [] OTHER -> 0

\* Ord for String: lexicographic on bytes, a proper prefix is smaller.
StrLess(a, b) ==
    \E i \in 1..(Len(b)) :
        /\ \A j \in 1..(i - 1) : j <= Len(a) /\ a[j] = b[j]
        /\ i - 1 <= Len(a)
        /\ \/ i > Len(a)
           \/ CharCode(a[i]) < CharCode(b[i])

Unknown == <<"U", "n", "k", "n", "o", "w", "n">>

\* ----------------------------------------------------------------- SongInfo
\* tag: [title, album, artist, track, duration]; duration is Option (ticks).
SongInfoNew(path, tag, mp3_duration) ==
    [ title     |-> tag.title,
      album     |-> tag.album,
      artist    |-> tag.artist,
      track     |-> tag.track,
      duration  |-> IF IsSome(tag.duration) THEN tag.duration[1]
                    ELSE UnwrapOr(mp3_duration, 0),
      file_path |-> path ]

\* ------------------------------------------------------------------ Library
SupportedExt == {"mp3", "flac"}

\* The key of sort_by_key in Library::scan.
SortKey(f) ==
    << UnwrapOr(f.artist, Unknown), UnwrapOr(f.album, Unknown), UnwrapOr(f.track[1], 0) >>

KeyLess(k1, k2) ==
    \/ StrLess(k1[1], k2[1])
    \/ k1[1] = k2[1] /\ StrLess(k1[2], k2[2])
    \/ k1[1] = k2[1] /\ k1[2] = k2[2] /\ k1[3] < k2[3]

\* Stable insertion: x goes after every element whose key is not greater.
SortedInsert(s, x) ==
    LET n == Cardinality({i \in 1..Len(s) : ~KeyLess(SortKey(x), SortKey(s[i]))})
    IN  SubSeq(s, 1, n) \o <<x>> \o SubSeq(s, n + 1, Len(s))

RECURSIVE SortFrom(_, _, _)
SortFrom(s, i, acc) ==
    IF i > Len(s) THEN acc ELSE SortFrom(s, i + 1, SortedInsert(acc, s[i]))

sort_by_key(s) == SortFrom(s, 1, <<>>)

\* The for loop, had total_files_seen been counted after the tag was read.
RECURSIVE ScanEntries_CountsLoaded(_, _, _)
ScanEntries_CountsLoaded(entries, i, st) ==
    IF i > Len(entries) THEN st
    ELSE LET p == entries[i] IN
         IF ~p.entry_ok THEN ScanEntries_CountsLoaded(entries, i + 1, st)
         ELSE IF ~p.file_type_ok THEN [st EXCEPT !.ok = FALSE]
         ELSE IF p.kind = "dir"
              THEN ScanEntries_CountsLoaded(entries, i + 1,
                       [st EXCEPT !.to_scan = Append(@, p)])
         ELSE IF p.kind = "file" /\ IsSome(p.ext) /\ p.ext[1] \in SupportedExt
                              /\ IsSome(p.tag)
              THEN ScanEntries_CountsLoaded(entries, i + 1,
                       [st EXCEPT !.seen = @ + 1,
                                  !.files = Append(@, SongInfoNew(p.path, p.tag[1], p.mp3_duration))])
         ELSE ScanEntries_CountsLoaded(entries, i + 1, st)

\* One pass of the for loop over read_dir(dir)?.flatten(), from entry i on.
\* st = [ok, to_scan, files, seen].
RECURSIVE ScanEntries(_, _, _)
ScanEntries(entries, i, st) ==
    IF i > Len(entries) THEN st
    ELSE LET p == entries[i] IN
         IF ~p.entry_ok THEN ScanEntries(entries, i + 1, st)
         ELSE IF ~p.file_type_ok THEN [st EXCEPT !.ok = FALSE]
         ELSE IF p.kind = "dir"
              THEN ScanEntries(entries, i + 1, [st EXCEPT !.to_scan = Append(@, p)])
         ELSE IF p.kind = "file" /\ IsSome(p.ext) /\ p.ext[1] \in SupportedExt
              THEN IF IsSome(p.tag)
                   THEN ScanEntries(entries, i + 1,
                            [st EXCEPT !.seen = @ + 1,
                                       !.files = Append(@, SongInfoNew(p.path, p.tag[1], p.mp3_duration))])
                   ELSE ScanEntries(entries, i + 1, [st EXCEPT !.seen = @ + 1])
         ELSE ScanEntries(entries, i + 1, st)

\* The while let Some(dir) = to_scan.pop() loop.
RECURSIVE ScanLoop(_)
ScanLoop(st) ==
    IF ~st.ok \/ st.to_scan = <<>> THEN st
    ELSE LET dir  == st.to_scan[Len(st.to_scan)]
             rest == [st EXCEPT !.to_scan = SubSeq(@, 1, Len(@) - 1)]
         IN  IF ~dir.readable THEN [rest EXCEPT !.ok = FALSE]
             ELSE ScanLoop(ScanEntries(dir.entries, 1, rest))

\* Vec::clear.
VecClear(v) == <<>>

\* Library::scan without the self.files.clear() it starts with.
scan_NoClear(old_files, root) ==
    LET st == ScanLoop([ok |-> TRUE, to_scan |-> <<root>>, files |-> old_files, seen |-> 0])
    IN  IF st.ok
        THEN [ok |-> TRUE, seen |-> st.seen, files |-> sort_by_key(st.files)]
        ELSE [ok |-> FALSE, seen |-> st.seen, files |-> st.files]

\* Library::scan on a library whose files were old_files: the vector is
\* cleared first, so old_files does not reach the result.
scan(old_files, root) ==
    LET st == ScanLoop([ok |-> TRUE, to_scan |-> <<root>>,
                        files |-> VecClear(old_files), seen |-> 0])
    IN  IF st.ok
        THEN [ok |-> TRUE, seen |-> st.seen, files |-> sort_by_key(st.files)]
        ELSE [ok |-> FALSE, seen |-> st.seen, files |-> st.files]

\* ------------------------------------------------ directory trees (inputs)
Tag(title, album, artist, track, duration) ==
    [title |-> title, album |-> album, artist |-> artist,
     track |-> <<track, None>>, duration |-> duration]

FileEntry(path, ext, tag, mp3_duration) ==
    [kind |-> "file", path |-> path, ext |-> ext, tag |-> tag,
     mp3_duration |-> mp3_duration, entry_ok |-> TRUE, file_type_ok |-> TRUE,
     readable |-> TRUE, entries |-> <<>>]

DirEntry(path, readable, entries) ==
    [kind |-> "dir", path |-> path, ext |-> None, tag |-> None,
     mp3_duration |-> None, entry_ok |-> TRUE, file_type_ok |-> TRUE,
     readable |-> readable, entries |-> entries]

FileA == FileEntry("a.mp3", Some("mp3"),
             Some(Tag(Some(<<"B", "a">>), Some(<<"X">>), Some(<<"B">>), Some(2), Some(4))), None)
FileB == FileEntry("b.flac", Some("flac"),
             Some(Tag(Some(<<"a">>), Some(<<"Y">>), Some(<<"A">>), Some(1), Some(3))), None)
\* No tag fields at all and no duration from the mp3 frame scan: Duration::ZERO.
FileC == FileEntry("sub/c.mp3", Some("mp3"),
             Some(Tag(None, None, None, None, None)), None)
\* Supported extension, unreadable tag: counted, not loaded.
FileBad == FileEntry("sub/bad.mp3", Some("mp3"), None, None)
FileTxt == FileEntry("notes.txt", Some("txt"), None, None)
FileUpper == FileEntry("sub/d.MP3", Some("MP3"),
             Some(Tag(Some(<<"a">>), None, None, None, Some(2))), None)

DiskEmpty == DirEntry("", TRUE, <<>>)
DiskOne   == DirEntry("", TRUE, <<FileTxt, FileB>>)
DiskThree == DirEntry("", TRUE,
                 <<FileA, DirEntry("sub", TRUE, <<FileBad, FileC, FileUpper>>), FileB>>)
\* The subdirectory cannot be read: the traversal fails after a.mp3 was loaded.
DiskDenied == DirEntry("", TRUE, <<FileA, DirEntry("sub", FALSE, <<>>)>>)

Disks == {DiskEmpty, DiskOne, DiskThree, DiskDenied}

\* More trees, for the scan on its own: every way to leave each file of Pool
\* out, put it in the root directory, or put it two levels down.  sub always
\* holds an upper-case extension and a symbolic link named like an mp3 file,
\* sub/deep always a text file.
FileD == FileEntry("d.mp3", Some("mp3"),
                   Some(Tag(Some(<<"c">>), Some(<<"W">>), Some(<<"B">>), Some(5), Some(2))), None)
FileLink == [FileEntry("sub/link.mp3", Some("mp3"), None, None) EXCEPT !.kind = "other"]

Pool == << FileA, FileBad, FileC, FileB, FileD >>
Places == {"absent", "root", "deep"}

RECURSIVE PlacedFrom(_, _, _)
PlacedFrom(place, where, i) ==
    IF i > Len(Pool) THEN <<>>
    ELSE (IF place[i] = where THEN << Pool[i] >> ELSE <<>>) \o PlacedFrom(place, where, i + 1)

Tree(place) ==
    DirEntry("", TRUE,
        PlacedFrom(place, "root", 1) \o
        << DirEntry("sub", TRUE,
              << FileUpper, FileLink,
                 DirEntry("sub/deep", TRUE,
                          << FileTxt >> \o PlacedFrom(place, "deep", 1)) >>) >>)

ScanTrees == Disks \cup { Tree(place) : place \in [1..Len(Pool) -> Places] }


\* ------------------------------------------------------------ AudioManager
\* am = [paused, queue, volume, playback_progress, active_source_duration]:
\* paused, queue and volume are the state of the rodio Sink.

\* AudioManager::new: the sink is created, then paused; rodio's sink starts
\* at volume 1.0.
AudioManagerNew ==
    [paused |-> TRUE, queue |-> <<>>, volume |-> VolumeMax,
     playback_progress |-> 0, active_source_duration |-> None]

play(a) == [a EXCEPT !.paused = FALSE]

pause(a) == [a EXCEPT !.paused = TRUE]

\* toggle_playback that only ever resumes.
toggle_playback_AlwaysPlays(a) == play(a)

toggle_playback(a) == IF a.paused THEN play(a) ELSE pause(a)

\* Mutant: the progress of the previous track is carried into the new one.
set_active_source_KeepsProgress(a, path, decodable, total_duration) ==
    IF ~decodable THEN [ok |-> FALSE, am |-> a]
    ELSE [ok |-> TRUE,
          am |-> [a EXCEPT !.active_source_duration = total_duration,
                           !.paused = TRUE,
                           !.queue = <<path>>]]

\* Mutant: the new source is appended without clearing the sink.
set_active_source_NoClear(a, path, decodable, total_duration) ==
    IF ~decodable THEN [ok |-> FALSE, am |-> a]
    ELSE [ok |-> TRUE,
          am |-> [a EXCEPT !.active_source_duration = total_duration,
                           !.queue = Append(@, path),
                           !.playback_progress = 0]]

\* decodable: File::open and Decoder::new both succeed. total_duration is
\* what the decoder reports. Sink::clear empties the queue and pauses the sink.
set_active_source(a, path, decodable, total_duration) ==
    IF ~decodable THEN [ok |-> FALSE, am |-> a]
    ELSE [ok |-> TRUE,
          am |-> [a EXCEPT !.active_source_duration = total_duration,
                           !.paused = TRUE,
                           !.queue = <<path>>,
                           !.playback_progress = 0]]

\* expect() on None panics; the caller of the model tests IsSome first.
skip(a) == [a EXCEPT !.playback_progress = a.active_source_duration[1]]

\* accepted: sink.try_seek returned Ok(()).
seek_forward(a, accepted) ==
    LET seek_diff == SeekForwardSecs * TicksPerSecond
    IN  IF accepted THEN [a EXCEPT !.playback_progress = @ + seek_diff] ELSE a

seek_backward(a, accepted) ==
    LET seek_diff == SeekBackwardSecs * TicksPerSecond
    IN  IF seek_diff > a.playback_progress
        THEN [a EXCEPT !.playback_progress = 0]
        ELSE IF accepted THEN [a EXCEPT !.playback_progress = @ - seek_diff] ELSE a

\* Mutant: the paused flag is not consulted.
am_update_IgnoresPause(a, d) == [a EXCEPT !.playback_progress = @ + d]

\* AudioManager::update
am_update(a, d) ==
    IF ~a.paused THEN [a EXCEPT !.playback_progress = @ + d] ELSE a

set_volume(a, v) == [a EXCEPT !.volume = v]

Min(x, y) == IF x <= y THEN x ELSE y
Max(x, y) == IF x >= y THEN x ELSE y

volume_up(a) == set_volume(a, Min(a.volume + VolumeStep, VolumeMax))

\* volume_down without the .max(0.0).
volume_down_NoClamp(a) == set_volume(a, a.volume - VolumeStep)

volume_down(a) == set_volume(a, Max(a.volume - VolumeStep, VolumeMin))

\* ------------------------------------------------------------ tui filter
\* The closure of the filter in Tui::draw_file_list.
FilterMatch(s, q) ==
    IF IsSome(q)
    THEN LET query  == to_lowercase(q[1])
             title  == to_lowercase(UnwrapOr(s.title, <<>>))
             artist == to_lowercase(UnwrapOr(s.artist, <<>>))
             album  == to_lowercase(UnwrapOr(s.album, <<>>))
         IN  contains(title, query) \/ contains(artist, query) \/ contains(album, query)
    ELSE TRUE

\* The library indices (0-based) of the rows of the displayed table, in order.
RECURSIVE DisplayedFrom(_, _, _)
DisplayedFrom(fs, q, i) ==
    IF i > Len(fs) THEN <<>>
    ELSE (IF FilterMatch(fs[i], q) THEN <<i - 1>> ELSE <<>>) \o DisplayedFrom(fs, q, i + 1)

draw_file_list(fs, q) == DisplayedFrom(fs, q, 1)

\* --------------------------------------------------------------- the state
VARIABLES
    playback_mode,      \* AppState's playback mode, PlaybackMode (read by tui.rs)
    disk,               \* the directory tree Library::scan last read
    scanned,            \* what the last Library::scan returned, Option<Result<usize>>
    files,              \* Library::files
    alive,              \* PlayerApp::alive
    active_song,        \* AppState::active_song, Option<SongInfo>
    playing_file_ix,    \* AppState::playing_file_ix
    selected_file_ix,   \* AppState::selected_file_ix
    search_query,       \* AppState::search_query, Option<String>
    ui_mode,            \* AppState::ui_mode
    am,                 \* PlayerApp::am
    dt,                 \* main's dt
    pc,                 \* position in one iteration of main's loop
    key,                \* the key event read by handle_events in this iteration
    try_seek,           \* result of sink.try_seek in this iteration
    eot,                \* branch update's end-of-track check took in this iteration
    status              \* running, exited (Ok), error (Err returned), panic

vars == << playback_mode, disk, scanned, files, alive, active_song, playing_file_ix, selected_file_ix, search_query,
           ui_mode, am, dt, pc, key, try_seek, eot, status >>

DtValues == {1, MaxDt}
QueryChars == {"a", "B"}
WideChars == QueryChars \cup {"é", "q"}

\* io::Result<usize> of Library::scan: Ok(total_files_seen) or Err.
ScanResult(r) == [ok |-> r.ok, seen |-> IF r.ok THEN r.seen ELSE 0]

\* PlayerApp::new after a successful Library::with_scan, then main's dt = 0.0.
Init ==
    /\ \E root \in Disks :
          /\ scan(<<>>, root).ok
          /\ disk = root
          /\ scanned = Some(ScanResult(scan(<<>>, root)))
          /\ files = scan(<<>>, root).files
    /\ playback_mode = "Normal"
    /\ alive = TRUE
    /\ active_song = None
    /\ playing_file_ix = 0
    /\ selected_file_ix = 0
    /\ search_query = None
    /\ ui_mode = "FileList"
    /\ am = AudioManagerNew
    /\ dt = 0
    /\ pc = "loop"
    /\ key = "none"
    /\ try_seek = "none"
    /\ eot = "none"
    /\ status = "running"


\* ------------------------------------------------------------- PlayerApp
\* What the decoder may report as total_duration for track s: nothing, the
\* duration of the tags, or a shorter one.
TotalDurations(s) ==
    {None, Some(s.duration)} \cup (IF s.duration > 0 THEN {Some(s.duration - 1)} ELSE {})

\* files()[ix] for an index in range (Rust indices start at 0).
FileAt(ix) == files[ix + 1]

\* PlayerApp::play_at_ix with playing_file_ix = ix. Indexing past the end of
\* files panics; a failed open/decode returns Err before anything is changed.
play_at_ix(ix, decodable, total_duration) ==
    IF ix >= Len(files)
    THEN [status |-> "panic", am |-> am, active_song |-> active_song]
    ELSE LET r == set_active_source(am, FileAt(ix).file_path, decodable, total_duration)
         IN  IF ~r.ok
             THEN [status |-> "error", am |-> am, active_song |-> active_song]
             ELSE [status |-> "running", am |-> play(r.am), active_song |-> Some(FileAt(ix))]

\* Where control goes after a step that left the program in status st.
NextPc(st, next) == IF st = "running" THEN next ELSE "done"

\* ---- main: while app.is_alive()
\* A loop that does not test app.is_alive().
LoopEnter_IgnoresAlive ==
    /\ pc = "loop" /\ status = "running"
    /\ pc' = "advance"
    /\ UNCHANGED << playback_mode, disk, scanned, files, alive, active_song, playing_file_ix,
                    selected_file_ix, search_query, ui_mode, am, dt, key, try_seek,
                    eot, status >>

LoopEnter ==
    /\ pc = "loop" /\ status = "running" /\ alive
    /\ pc' = "advance"
    /\ UNCHANGED << playback_mode, disk, scanned, files, alive, active_song, playing_file_ix, selected_file_ix,
                    search_query, ui_mode, am, dt, key, try_seek, eot, status >>

LoopExit ==
    /\ pc = "loop" /\ status = "running" /\ ~alive
    /\ pc' = "done"
    /\ status' = "exited"
    /\ UNCHANGED << playback_mode, disk, scanned, files, alive, active_song, playing_file_ix, selected_file_ix,
                    search_query, ui_mode, am, dt, key, try_seek, eot >>

\* ---- PlayerApp::update, first statement: self.am.update(dt)
Advance ==
    /\ pc = "advance" /\ status = "running"
    /\ am' = am_update(am, dt)
    /\ pc' = "events"
    /\ UNCHANGED << playback_mode, disk, scanned, files, alive, active_song, playing_file_ix, selected_file_ix,
                    search_query, ui_mode, dt, key, try_seek, eot, status >>

\* ---- PlayerApp::handle_events: one action per branch
AtEvents == pc = "events" /\ status = "running"
\* The FileList bindings, had they been tested outside the match on ui_mode.
InFileList_NoModeGate == AtEvents

InFileList == AtEvents /\ ui_mode = "FileList"
InSearch == AtEvents /\ ui_mode = "SearchPopup"

\* event::poll timed out, or the event was not a key press.
NoEvent ==
    /\ AtEvents
    /\ key' = "none" /\ pc' = "eot"
    /\ UNCHANGED << playback_mode, disk, scanned, files, alive, active_song, playing_file_ix, selected_file_ix,
                    search_query, ui_mode, am, dt, try_seek, eot, status >>

KeyQuit ==
    /\ InFileList
    /\ key' = "q" /\ pc' = "eot"
    /\ alive' = FALSE
    /\ UNCHANGED << playback_mode, disk, scanned, files, active_song, playing_file_ix, selected_file_ix,
                    search_query, ui_mode, am, dt, try_seek, eot, status >>

KeyTogglePlayback ==
    /\ InFileList
    /\ key' = "p" /\ pc' = "eot"
    /\ am' = IF IsSome(active_song) THEN toggle_playback(am) ELSE am
    /\ UNCHANGED << playback_mode, disk, scanned, files, alive, active_song, playing_file_ix, selected_file_ix,
                    search_query, ui_mode, dt, try_seek, eot, status >>

\* 's': self.library.scan()? on whatever the directory tree holds now.
KeyScan ==
    /\ InFileList
    /\ \E root \in Disks :
          LET r == scan(files, root)
          IN  /\ disk' = root
              /\ scanned' = Some(ScanResult(r))
              /\ files' = r.files
              /\ status' = IF r.ok THEN "running" ELSE "error"
    /\ key' = "s" /\ pc' = NextPc(status', "eot")
    /\ UNCHANGED << playback_mode, alive, active_song, playing_file_ix, selected_file_ix,
                    search_query, ui_mode, am, dt, try_seek, eot >>

\* files().len() - 1 on usize: with an empty library the subtraction
\* overflows, which panics (overflow checks on, the debug profile) or wraps
\* to usize::MAX (overflow checks off, the release profile).
LenMinusOneOverflows == Len(files) = 0
OverflowOutcomes == IF LenMinusOneOverflows THEN {"panic", "wrap"} ELSE {"exact"}
LenMinusOne == IF Len(files) = 0 THEN UsizeMax ELSE Len(files) - 1

select_next(ix, len_minus_one) == Min(ix + 1, len_minus_one)

select_previous(ix) == Max(ix, 1) - 1

KeyDown ==
    /\ InFileList
    /\ key' = "Down"
    /\ \E outcome \in OverflowOutcomes :
          IF outcome = "panic"
          THEN /\ status' = "panic" /\ pc' = "done"
               /\ UNCHANGED selected_file_ix
          ELSE /\ select_next(selected_file_ix, LenMinusOne) <= MaxSelected
               /\ selected_file_ix' = select_next(selected_file_ix, LenMinusOne)
               /\ pc' = "eot"
               /\ UNCHANGED status
    /\ UNCHANGED << playback_mode, disk, scanned, files, alive, active_song, playing_file_ix, search_query, ui_mode,
                    am, dt, try_seek, eot >>

KeyUp ==
    /\ InFileList
    /\ key' = "Up" /\ pc' = "eot"
    /\ selected_file_ix' = select_previous(selected_file_ix)
    /\ UNCHANGED << playback_mode, disk, scanned, files, alive, active_song, playing_file_ix, search_query, ui_mode,
                    am, dt, try_seek, eot, status >>

\* Shift+Right: self.am.skip() when a song is active.
KeySkip ==
    /\ InFileList
    /\ key' = "ShiftRight"
    /\ IF IsSome(active_song)
       THEN IF IsSome(am.active_source_duration)
            THEN am' = skip(am) /\ UNCHANGED status
            ELSE status' = "panic" /\ UNCHANGED am
       ELSE UNCHANGED << am, status >>
    /\ pc' = NextPc(status', "eot")
    /\ UNCHANGED << playback_mode, disk, scanned, files, alive, active_song, playing_file_ix, selected_file_ix,
                    search_query, ui_mode, dt, try_seek, eot >>

KeySeekForward ==
    /\ InFileList
    /\ key' = "Right" /\ pc' = "eot"
    /\ IF IsSome(active_song)
       THEN \E accepted \in BOOLEAN :
              /\ seek_forward(am, accepted).playback_progress <= MaxElapsed
              /\ am' = seek_forward(am, accepted)
              /\ try_seek' = IF accepted THEN "ok" ELSE "err"
       ELSE UNCHANGED << am, try_seek >>
    /\ UNCHANGED << playback_mode, disk, scanned, files, alive, active_song, playing_file_ix, selected_file_ix,
                    search_query, ui_mode, dt, eot, status >>

KeySeekBackward ==
    /\ InFileList
    /\ key' = "Left" /\ pc' = "eot"
    /\ IF IsSome(active_song)
       THEN \E accepted \in BOOLEAN :
              /\ am' = seek_backward(am, accepted)
              /\ try_seek' = IF accepted THEN "ok" ELSE "err"
       ELSE UNCHANGED << am, try_seek >>
    /\ UNCHANGED << playback_mode, disk, scanned, files, alive, active_song, playing_file_ix, selected_file_ix,
                    search_query, ui_mode, dt, eot, status >>

\* Enter: playing_file_ix = selected_file_ix; self.play_at_ix()?
KeyEnter ==
    /\ InFileList
    /\ key' = "Enter"
    /\ playing_file_ix' = selected_file_ix
    /\ \E decodable \in BOOLEAN :
       \E total_duration \in
              (IF selected_file_ix < Len(files) /\ decodable
               THEN TotalDurations(FileAt(selected_file_ix)) ELSE {None}) :
          LET r == play_at_ix(selected_file_ix, decodable, total_duration)
          IN  /\ status' = r.status
              /\ am' = r.am
              /\ active_song' = r.active_song
    /\ pc' = NextPc(status', "eot")
    /\ UNCHANGED << playback_mode, disk, scanned, files, alive, selected_file_ix, search_query, ui_mode, dt,
                    try_seek, eot >>


KeyVolumeUp ==
    /\ InFileList
    /\ key' = "=" /\ pc' = "eot"
    /\ am' = volume_up(am)
    /\ UNCHANGED << playback_mode, disk, scanned, files, alive, active_song, playing_file_ix, selected_file_ix,
                    search_query, ui_mode, dt, try_seek, eot, status >>

\* '-': self.volume_down().
VolumeDownKey ==
    /\ InFileList
    /\ key' = "-" /\ pc' = "eot"
    /\ am' = volume_down(am)
    /\ UNCHANGED << playback_mode, disk, scanned, files, alive, active_song, playing_file_ix, selected_file_ix,
                    search_query, ui_mode, dt, try_seek, eot, status >>

\* The same key while the volume is within MaxVolumeDrop steps of the initial one.
KeyVolumeDown ==
    /\ volume_down(am).volume >= VolumeMax - MaxVolumeDrop
    /\ VolumeDownKey

KeySearch ==
    /\ InFileList
    /\ key' = "/" /\ pc' = "eot"
    /\ ui_mode' = "SearchPopup"
    /\ UNCHANGED << playback_mode, disk, scanned, files, alive, active_song, playing_file_ix, selected_file_ix,
                    search_query, am, dt, try_seek, eot, status >>

\* A key press none of the branches of the current mode tests for.
KeyUnbound ==
    /\ AtEvents
    /\ ui_mode \in {"FileList", "SearchPopup", "InfoPopup"}
    /\ key' = "other" /\ pc' = "eot"
    /\ UNCHANGED << playback_mode, disk, scanned, files, alive, active_song, playing_file_ix, selected_file_ix,
                    search_query, ui_mode, am, dt, try_seek, eot, status >>

\* Enter in the popup, had it also dropped the query.
SearchConfirm_ClearsQuery ==
    /\ InSearch
    /\ key' = "Enter" /\ pc' = "eot"
    /\ ui_mode' = "FileList"
    /\ search_query' = None
    /\ UNCHANGED << playback_mode, disk, scanned, files, alive, active_song, playing_file_ix,
                    selected_file_ix, am, dt, try_seek, eot, status >>

SearchConfirm ==
    /\ InSearch
    /\ key' = "Enter" /\ pc' = "eot"
    /\ ui_mode' = "FileList"
    /\ UNCHANGED << playback_mode, disk, scanned, files, alive, active_song, playing_file_ix, selected_file_ix,
                    search_query, am, dt, try_seek, eot, status >>

\* String::len counts bytes.
Utf8Len(c) == IF c = "é" THEN 2 ELSE 1

RECURSIVE ByteLen(_)
ByteLen(str) == IF str = <<>> THEN 0 ELSE Utf8Len(Head(str)) + ByteLen(Tail(str))

\* Backspace: q[..q.len() - 1] panics when byte q.len() - 1 is inside a character.
SearchBackspace ==
    /\ InSearch
    /\ key' = "Backspace"
    /\ IF IsSome(search_query)
       THEN LET q == search_query[1] IN
            IF ByteLen(q) = 1
            THEN search_query' = None /\ UNCHANGED status
            ELSE IF Utf8Len(q[Len(q)]) = 1
                 THEN search_query' = Some(SubSeq(q, 1, Len(q) - 1)) /\ UNCHANGED status
                 ELSE status' = "panic" /\ UNCHANGED search_query
       ELSE UNCHANGED << search_query, status >>
    /\ pc' = NextPc(status', "eot")
    /\ UNCHANGED << playback_mode, disk, scanned, files, alive, active_song, playing_file_ix, selected_file_ix,
                    ui_mode, am, dt, try_seek, eot >>

\* Char(c): the query becomes Some(c) or gets c pushed, for c drawn from chars.
SearchCharIn(chars, maxlen) ==
    /\ InSearch
    /\ \E c \in chars :
          /\ Len(UnwrapOr(search_query, <<>>)) < maxlen
          /\ search_query' = IF search_query = None THEN Some(<<c>>)
                             ELSE Some(Append(search_query[1], c))
    /\ key' = "Char" /\ pc' = "eot"
    /\ UNCHANGED << playback_mode, disk, scanned, files, alive, active_song, playing_file_ix, selected_file_ix,
                    ui_mode, am, dt, try_seek, eot, status >>

SearchChar == SearchCharIn(QueryChars, MaxQueryLen)

\* The same with a character of two bytes and the quit key's character.
SearchCharWide == SearchCharIn(WideChars, MaxWideQueryLen)

\* ---- PlayerApp::update, after handle_events: the end-of-track check
AtEot == pc = "eot" /\ status = "running"

EndReached(a, s) == a.playback_progress >= s.duration

\* Mutant: off by one, the last index is taken to have a successor.
HasNext_OffByOne(ix, len_minus_one) == ix <= len_minus_one

\* playing_file_ix < files().len() - 1
HasNext(ix, len_minus_one) == ix < len_minus_one

EotNotReached ==
    /\ AtEot
    /\ ~(IsSome(active_song) /\ EndReached(am, active_song[1]))
    /\ eot' = "none" /\ pc' = "render"
    /\ UNCHANGED << playback_mode, disk, scanned, files, alive, active_song, playing_file_ix, selected_file_ix,
                    search_query, ui_mode, am, dt, key, try_seek, status >>

\* len() - 1 overflows on an empty library and the build panics on overflow.
EotOverflowPanic ==
    /\ AtEot
    /\ IsSome(active_song) /\ EndReached(am, active_song[1])
    /\ "panic" \in OverflowOutcomes
    /\ eot' = "panic" /\ status' = "panic" /\ pc' = "done"
    /\ UNCHANGED << playback_mode, disk, scanned, files, alive, active_song, playing_file_ix, selected_file_ix,
                    search_query, ui_mode, am, dt, key, try_seek >>

\* playing_file_ix += 1; self.play_at_ix()?
EotNext ==
    /\ AtEot
    /\ IsSome(active_song) /\ EndReached(am, active_song[1])
    /\ OverflowOutcomes # {"panic"}
    /\ HasNext(playing_file_ix, LenMinusOne)
    /\ playing_file_ix' = playing_file_ix + 1
    /\ \E decodable \in BOOLEAN :
       \E total_duration \in
              (IF playing_file_ix + 1 < Len(files) /\ decodable
               THEN TotalDurations(FileAt(playing_file_ix + 1)) ELSE {None}) :
          LET r == play_at_ix(playing_file_ix + 1, decodable, total_duration)
          IN  /\ status' = r.status
              /\ am' = r.am
              /\ active_song' = r.active_song
    /\ eot' = "next" /\ pc' = NextPc(status', "render")
    /\ UNCHANGED << playback_mode, disk, scanned, files, alive, selected_file_ix, search_query, ui_mode, dt, key,
                    try_seek >>

EotPause ==
    /\ AtEot
    /\ IsSome(active_song) /\ EndReached(am, active_song[1])
    /\ OverflowOutcomes # {"panic"}
    /\ ~HasNext(playing_file_ix, LenMinusOne)
    /\ am' = pause(am)
    /\ eot' = "pause" /\ pc' = "render"
    /\ UNCHANGED << playback_mode, disk, scanned, files, alive, active_song, playing_file_ix, selected_file_ix,
                    search_query, ui_mode, dt, key, try_seek, status >>

\* ---- main: tui.update(&mut app)?; dt = start.elapsed().as_secs_f64()
\* Tui::ui panics (todo!) in InfoPopup mode. The locals of this iteration end.
Render ==
    /\ pc = "render" /\ status = "running"
    /\ IF ui_mode = "InfoPopup"
       THEN status' = "panic" /\ pc' = "done" /\ UNCHANGED dt
       ELSE /\ \E d \in DtValues :
                 /\ am.paused \/ am.playback_progress + d <= MaxElapsed
                 /\ dt' = d
            /\ pc' = "loop"
            /\ UNCHANGED status
    /\ key' = "none" /\ try_seek' = "none" /\ eot' = "none"
    /\ UNCHANGED << playback_mode, disk, scanned, files, alive, active_song, playing_file_ix, selected_file_ix,
                    search_query, ui_mode, am >>

Next ==
    \/ LoopEnter \/ LoopExit
    \/ Advance
    \/ NoEvent
    \/ KeyQuit \/ KeyTogglePlayback \/ KeyScan \/ KeyDown \/ KeyUp
    \/ KeySkip \/ KeySeekForward \/ KeySeekBackward \/ KeyEnter
    \/ KeyVolumeUp \/ KeyVolumeDown \/ KeySearch \/ KeyUnbound
    \/ SearchConfirm \/ SearchBackspace \/ SearchChar
    \/ EotNotReached \/ EotOverflowPanic \/ EotNext \/ EotPause
    \/ Render

Spec == Init /\ [][Next]_vars

\* ---- Library on its own, as the tests of app.rs drive it: Library::new
\* on some directory, then scan() any number of times while the directory
\* changes between the calls.
InitScan ==
    /\ disk \in ScanTrees
    /\ scanned = None
    /\ files = <<>>
    /\ playback_mode = "Normal"
    /\ alive = TRUE
    /\ active_song = None
    /\ playing_file_ix = 0
    /\ selected_file_ix = 0
    /\ search_query = None
    /\ ui_mode = "FileList"
    /\ am = AudioManagerNew
    /\ dt = 0
    /\ pc = "library"
    /\ key = "none"
    /\ try_seek = "none"
    /\ eot = "none"
    /\ status = "running"

LibraryScan ==
    /\ pc = "library"
    /\ \E root \in IF scanned = None THEN {disk} ELSE ScanTrees :
          LET r == scan(files, root)
          IN  /\ disk' = root
              /\ scanned' = Some(ScanResult(r))
              /\ files' = r.files
    /\ UNCHANGED << playback_mode, alive, active_song, playing_file_ix, selected_file_ix,
                    search_query, ui_mode, am, dt, pc, key, try_seek, eot, status >>

NextScan == LibraryScan

SpecScan == InitScan /\ [][NextScan]_vars

\* ---- The main loop with nothing pressed but the two volume keys, as often
\* as the user likes: the whole range of the volume is reached.
NextVolume ==
    \/ LoopEnter
    \/ Advance
    \/ NoEvent \/ KeyVolumeUp \/ VolumeDownKey
    \/ EotNotReached
    \/ Render

SpecVolume == Init /\ [][NextVolume]_vars

\* ---- The main loop with the search popup only: '/' opens it, any
\* character of WideChars is typed, Backspace and Enter are pressed.
NextSearch ==
    \/ LoopEnter
    \/ Advance
    \/ NoEvent \/ KeySearch \/ KeyUnbound
    \/ SearchConfirm \/ SearchBackspace \/ SearchCharWide
    \/ EotNotReached
    \/ Render

SpecSearch == Init /\ [][NextSearch]_vars

\* main is a sequential program: a step that can be taken is taken.
SpecFair == Spec /\ WF_vars(Next)

\* ---- Shuffle.  tui.rs reads app.playback_mode() and PlaybackMode::{Normal,
\* Shuffle} from app.rs, which holds neither: the mode, and what the
\* end-of-track check does in shuffle mode, follow the specification's
\* SessionState.advance.  Nothing there sets the mode, so it is whatever the
\* application was built with.
PlaybackModes == {"Normal", "Shuffle"}

\* "in shuffle mode ... when more than one track exists"
ShuffleApplies == playback_mode = "Shuffle" /\ Len(files) > 1

\* Shuffle that may pick the playing index again.
ShuffleChoices_AnyIndex(ix) == 0..(Len(files) - 1)

\* "pick a pseudo-random index distinct from the current one"
ShuffleChoices(ix) == { j \in 0..(Len(files) - 1) : j # ix }

\* The end-of-track event in shuffle mode: the picked track is loaded and played.
EotShuffle ==
    /\ AtEot
    /\ IsSome(active_song) /\ EndReached(am, active_song[1])
    /\ ShuffleApplies
    /\ \E j \in ShuffleChoices(playing_file_ix) :
       \E decodable \in BOOLEAN :
       \E total_duration \in
              (IF j < Len(files) /\ decodable THEN TotalDurations(FileAt(j)) ELSE {None}) :
          LET r == play_at_ix(j, decodable, total_duration)
          IN  /\ playing_file_ix' = j
              /\ status' = r.status
              /\ am' = r.am
              /\ active_song' = r.active_song
    /\ eot' = "shuffle" /\ pc' = NextPc(status', "render")
    /\ UNCHANGED << playback_mode, disk, scanned, files, alive, selected_file_ix,
                    search_query, ui_mode, dt, key, try_seek >>

\* Otherwise the end-of-track check is the one of PlayerApp::update.
SeqEotOverflowPanic == ~ShuffleApplies /\ EotOverflowPanic
SeqEotNext == ~ShuffleApplies /\ EotNext
SeqEotPause == ~ShuffleApplies /\ EotPause

InitShuffle ==
    /\ \E root \in Disks :
          /\ scan(<<>>, root).ok
          /\ disk = root
          /\ scanned = Some(ScanResult(scan(<<>>, root)))
          /\ files = scan(<<>>, root).files
    /\ playback_mode \in PlaybackModes
    /\ alive = TRUE
    /\ active_song = None
    /\ playing_file_ix = 0
    /\ selected_file_ix = 0
    /\ search_query = None
    /\ ui_mode = "FileList"
    /\ am = AudioManagerNew
    /\ dt = 0
    /\ pc = "loop"
    /\ key = "none"
    /\ try_seek = "none"
    /\ eot = "none"
    /\ status = "running"

NextShuffle ==
    \/ LoopEnter \/ LoopExit
    \/ Advance
    \/ NoEvent
    \/ KeyQuit \/ KeyTogglePlayback \/ KeyScan \/ KeyDown \/ KeyUp
    \/ KeySkip \/ KeyEnter
    \/ EotNotReached \/ SeqEotOverflowPanic \/ SeqEotNext \/ SeqEotPause
    \/ EotShuffle
    \/ Render

SpecShuffle == InitShuffle /\ [][NextShuffle]_vars

TypeOK ==
    /\ alive \in BOOLEAN
    /\ playing_file_ix \in Nat
    /\ selected_file_ix \in 0..MaxSelected
    /\ ui_mode \in {"FileList", "SearchPopup", "InfoPopup"}
    /\ am.playback_progress \in 0..MaxElapsed
    /\ am.volume \in VolumeMin..VolumeMax
    /\ pc \in {"loop", "advance", "events", "eot", "render", "done", "library"}
    /\ status \in {"running", "exited", "error", "panic"}


\* ================================================================== claims
\* The rows of the table Tui::draw_file_list shows in the current state.
Displayed == draw_file_list(files, search_query)

Progress == am.playback_progress

\* C1: a Down or Up key press in FileList mode raises no failure, keeps a
\* selection index that was inside [0, len-1] inside it, and on an empty list
\* leaves the index at 0.
C1_SelectionStaysInList ==
    [][ (InFileList /\ key' \in {"Down", "Up"}) =>
          /\ status' = "running"
          /\ (Len(files) = 0 /\ selected_file_ix = 0) => selected_file_ix' = 0
          /\ (Len(files) > 0 /\ selected_file_ix <= Len(files) - 1)
                => selected_file_ix' <= Len(files) - 1 ]_vars

\* C2: whenever the displayed (filtered) list is non-empty, the selection
\* index is one of its rows.
C2_SelectionWithinDisplayed ==
    (status = "running" /\ Len(Displayed) > 0) => selected_file_ix <= Len(Displayed) - 1

\* C3: when Enter in FileList mode fails to load the selected track, playing
\* index, active-track snapshot and the whole engine state (elapsed, paused
\* flag, loaded source) are what they were before the key press.
C3_FailedLoadLeavesPlayback ==
    [][ (InFileList /\ key' = "Enter" /\ status' = "error") =>
          /\ playing_file_ix' = playing_file_ix
          /\ active_song' = active_song
          /\ am' = am ]_vars

\* C3, the part the code keeps: snapshot and engine state are untouched.
C3_FailedLoadLeavesEngine ==
    [][ (InFileList /\ key' = "Enter" /\ status' = "error") =>
          /\ active_song' = active_song
          /\ am' = am ]_vars

\* C4: the end-of-track check on the last library track pauses the engine,
\* leaves elapsed where it was (at or above the duration) and leaves the
\* playing index unchanged and inside the library, without failing.
C4_LastTrackPauses ==
    [][ ( /\ AtEot /\ IsSome(active_song)
          /\ Progress >= active_song[1].duration
          /\ Len(files) > 0 /\ playing_file_ix = Len(files) - 1 ) =>
          /\ status' = "running"
          /\ am'.paused
          /\ am'.playback_progress = Progress
          /\ am'.playback_progress >= active_song'[1].duration
          /\ active_song' = active_song
          /\ playing_file_ix' = playing_file_ix
          /\ playing_file_ix' <= Len(files') - 1 ]_vars

\* A one-track library whose track was overshot and then paused by the check.
C4_Witness ==
    /\ pc = "render" /\ eot = "pause" /\ status = "running"
    /\ Len(files) = 1 /\ playing_file_ix = 0
    /\ IsSome(active_song) /\ am.paused
    /\ Progress > active_song[1].duration

\* C5: the end-of-track check on a track that is not the last one raises the
\* playing index by exactly one, and the track it loads starts at elapsed 0
\* whatever the overshoot was; while the duration is not reached the check
\* changes neither the playing index nor the engine.
C5_OneTransitionPerTrack ==
    [][ AtEot =>
          /\ ( /\ IsSome(active_song)
               /\ Progress >= active_song[1].duration
               /\ Len(files) > 0 /\ playing_file_ix < Len(files) - 1 ) =>
                  /\ playing_file_ix' = playing_file_ix + 1
                  /\ status' = "running" =>
                        /\ am'.playback_progress = 0
                        /\ active_song' = Some(files[playing_file_ix + 2])
          /\ ~(IsSome(active_song) /\ Progress >= active_song[1].duration) =>
                  /\ playing_file_ix' = playing_file_ix
                  /\ am' = am /\ active_song' = active_song ]_vars

\* The check moved from track 0 to track 1 after a tick of the largest dt.
C5_Witness ==
    /\ pc = "render" /\ eot = "next" /\ status = "running"
    /\ playing_file_ix = 1 /\ active_song = Some(files[2])
    /\ dt = MaxDt /\ Progress = 0

\* C6: AudioManager::update(dt) leaves elapsed unchanged while the engine is
\* paused and adds exactly dt while it is playing.
C6_AdvanceFrozenWhenPaused ==
    [][ (pc = "advance" /\ status = "running") =>
          /\ am.paused => am'.playback_progress = Progress
          /\ ~am.paused => am'.playback_progress = Progress + dt ]_vars

\* A paused track, part-way through, just after an update with dt > 0.
C6_Witness ==
    /\ pc = "events" /\ status = "running"
    /\ IsSome(active_song) /\ am.paused
    /\ dt > 0 /\ Progress > 0 /\ Progress < active_song[1].duration

\* C7: the end-of-track check acts only when the engine is not paused: with
\* the engine paused it changes neither the playing index, nor the active
\* track, nor the loaded source, nor the paused flag.
C7_EndOfTrackOnlyWhenPlaying ==
    [][ (AtEot /\ am.paused) =>
          /\ playing_file_ix' = playing_file_ix
          /\ active_song' = active_song
          /\ am'.queue = am.queue
          /\ am'.paused ]_vars

\* C8: after a successful Enter in FileList mode the snapshot is the library
\* track at the playing index, elapsed is 0, the sink holds the new source
\* only, and the engine is playing.
C8_ActivateLoadsAndPlays ==
    [][ (InFileList /\ key' = "Enter" /\ status' = "running") =>
          /\ playing_file_ix' < Len(files')
          /\ active_song' = Some(files'[playing_file_ix' + 1])
          /\ am'.playback_progress = 0
          /\ am'.queue = << files'[playing_file_ix' + 1].file_path >>
          /\ ~am'.paused ]_vars

\* Enter has just loaded track 1 of a three-track library.
C8_Witness ==
    /\ pc = "eot" /\ key = "Enter" /\ status = "running"
    /\ Len(files) = 3 /\ playing_file_ix = 1
    /\ active_song = Some(files[2]) /\ am.queue = << files[2].file_path >>
    /\ ~am.paused /\ Progress = 0

\* C9: with a search text set and the selection on a row of the displayed
\* list, Enter sets the playing index to the library index of that row.
C9_ActivatePlaysHighlighted ==
    [][ ( /\ InFileList /\ key' = "Enter" /\ status' = "running"
          /\ IsSome(search_query)
          /\ selected_file_ix < Len(Displayed) ) =>
          playing_file_ix' = Displayed[selected_file_ix + 1] ]_vars

\* C10: a seek the engine rejects leaves elapsed exactly as it was.
C10_RejectedSeekKeepsElapsed ==
    [][ (InFileList /\ key' \in {"Left", "Right"} /\ try_seek' = "err") =>
          am'.playback_progress = Progress ]_vars

\* C10, the parts the code keeps: an accepted seek moves elapsed by +5 s or
\* to max(elapsed - 1 s, 0), a rejected forward seek changes nothing, and
\* elapsed is never negative.
C10_SeekOtherParts ==
    [][ (InFileList /\ key' \in {"Left", "Right"}) =>
          /\ am'.playback_progress >= 0
          /\ (key' = "Right" /\ try_seek' = "err") => am' = am
          /\ (key' = "Right" /\ try_seek' = "ok") =>
                am'.playback_progress = Progress + SeekForwardSecs * TicksPerSecond
          /\ (key' = "Left" /\ try_seek' = "ok") =>
                am'.playback_progress = Max(Progress - SeekBackwardSecs * TicksPerSecond, 0) ]_vars



\* C7, the part the code keeps: in an update that read no key event, the
\* check leaves a paused engine, its source and the playing index alone.
C7_NoKeyTickPart ==
    [][ (AtEot /\ am.paused /\ key = "none") =>
          /\ playing_file_ix' = playing_file_ix
          /\ active_song' = active_song
          /\ am' = am
          /\ status' = "running" ]_vars

\* C11: whenever a track is active, Shift+Right completes and leaves elapsed at
\* or beyond the active track's duration, whatever total duration the loaded
\* source reports (none, or one that differs from the metadata duration).
C11_SkipReachesEnd ==
    [][ (InFileList /\ key' = "ShiftRight" /\ IsSome(active_song)) =>
          /\ status' = "running"
          /\ am'.playback_progress >= active_song[1].duration ]_vars

\* C11, the part that holds: when the source reports a total duration, skip
\* sets elapsed to exactly that duration.
C11_SkipSetsSourceDuration ==
    [][ (InFileList /\ key' = "ShiftRight" /\ IsSome(active_song)
                    /\ IsSome(am.active_source_duration)) =>
          /\ status' = "running"
          /\ am'.playback_progress = am.active_source_duration[1] ]_vars

\* C12: a scan that aborts on a traversal failure (a directory that cannot be
\* read, a file-type query that fails) returns an error and leaves the library
\* empty, holding no track loaded before the failure.
C12_FailedScanLeavesEmpty ==
    [][ (InFileList /\ key' = "s" /\ ~scanned'[1].ok) =>
          /\ status' = "error"
          /\ files' = <<>> ]_vars

\* C12, the part that holds: the failed scan returns the error to main, and
\* no track of the library before the scan is kept for that reason: what is
\* left is what this scan pushed before it failed.
C12_FailedScanReturnsError ==
    [][ (InFileList /\ key' = "s" /\ ~scanned'[1].ok) =>
          /\ status' = "error"
          /\ files' = scan(<<>>, disk').files ]_vars

\* The regular files anywhere under a sequence of directory entries.
RECURSIVE FilesUnder(_)
FilesUnder(entries) ==
    IF entries = <<>> THEN {}
    ELSE LET p == Head(entries) IN
         (IF p.kind = "dir" THEN FilesUnder(p.entries)
          ELSE IF p.kind = "file" THEN {p} ELSE {})
         \cup FilesUnder(Tail(entries))

\* The regular files under the scanned directory whose extension is mp3 or flac.
SupportedOnDisk ==
    { p \in FilesUnder(disk.entries) : IsSome(p.ext) /\ p.ext[1] \in {"mp3", "flac"} }

FilePaths == { files[i].file_path : i \in 1..Len(files) }

\* C13: a successful scan returns the number of regular files with extension
\* mp3 or flac at any depth, unparseable ones included and other extensions
\* excluded, and files() holds exactly those of them whose tag could be read.
C13_ScanCountsSupportedFiles ==
    (IsSome(scanned) /\ scanned[1].ok) =>
        /\ scanned[1].seen = Cardinality(SupportedOnDisk)
        /\ FilePaths = { p.path : p \in { f \in SupportedOnDisk : IsSome(f.tag) } }
        /\ Len(files) = Cardinality({ f \in SupportedOnDisk : IsSome(f.tag) })

\* A scan of a tree with a malformed mp3 two levels down, a loadable track and
\* files of other extensions: more files seen than tracks loaded.
C13_Witness ==
    /\ pc = "library" /\ IsSome(scanned) /\ scanned[1].ok
    /\ scanned[1].seen = 3 /\ Len(files) = 2
    /\ FileBad \in FilesUnder(disk.entries[Len(disk.entries)].entries)
    /\ \E f \in FilesUnder(disk.entries) : f.ext = Some("txt")

\* The order the specification gives for the library: artist, then album,
\* then track number, a missing artist or album read as "Unknown" and a
\* missing track number as 0.  a may come before b.
MayPrecede(a, b) ==
    LET artistA == UnwrapOr(a.artist, Unknown)   artistB == UnwrapOr(b.artist, Unknown)
        albumA  == UnwrapOr(a.album, Unknown)    albumB  == UnwrapOr(b.album, Unknown)
        trackA  == UnwrapOr(a.track[1], 0)       trackB  == UnwrapOr(b.track[1], 0)
    IN  \/ StrLess(artistA, artistB)
        \/ artistA = artistB /\ StrLess(albumA, albumB)
        \/ artistA = artistB /\ albumA = albumB /\ trackA <= trackB

\* C14: after every successful scan, a rescan of a populated library included,
\* files() is sorted by (artist, album, track), holds only tracks this scan
\* found under the directory, and holds no track twice.
C14_RescanSortedAndFresh ==
    (IsSome(scanned) /\ scanned[1].ok) =>
        /\ \A i, j \in 1..Len(files) : i < j => MayPrecede(files[i], files[j])
        /\ FilePaths \subseteq { p.path : p \in FilesUnder(disk.entries) }
        /\ Cardinality(FilePaths) = Len(files)

\* All four loadable tracks found, in root and two levels down: the one with
\* no artist is last, and of the two by artist B the one of album W is first.
C14_Witness ==
    /\ pc = "library" /\ IsSome(scanned) /\ scanned[1].ok
    /\ Len(files) = 4
    /\ files[1].file_path = "b.flac" /\ files[2].file_path = "d.mp3"
    /\ files[3].file_path = "a.mp3" /\ files[4].artist = None
    /\ disk.entries[1] = FileC

\* C15: whatever sequence of volume-up and volume-down keys is pressed, the
\* volume stays within [0.0, 1.0] (0..100 hundredths); volume-up at 1.0 and
\* volume-down at 0.0 leave it at that bound.
C15_VolumeStaysInRange ==
    [][ /\ am'.volume >= 0 /\ am'.volume <= 100
        /\ (InFileList /\ key' = "=" /\ am.volume = 100) => am'.volume = 100
        /\ (InFileList /\ key' = "-" /\ am.volume = 0) => am'.volume = 0 ]_vars

\* Volume-down was just handled and the volume is at the lower bound.
C15_Witness ==
    /\ pc = "eot" /\ key = "-" /\ status = "running"
    /\ am.volume = 0

\* C16: the search text is always absent or non-empty; a Backspace that removes
\* the last remaining character makes it absent, a Backspace on absent text
\* does nothing, and no typing or Backspace yields the empty string.
C16_SearchTextAbsentOrNonEmpty ==
    [][ /\ (search_query' = None \/ Len(search_query'[1]) > 0)
        /\ (InSearch /\ key' = "Backspace") =>
              /\ status' = "running"
              /\ search_query = None => search_query' = None
              /\ (IsSome(search_query) /\ Len(search_query[1]) = 1) =>
                     search_query' = None ]_vars

\* C16, the part that holds: the text is never the empty string, Backspace on
\* absent text does nothing, and Backspace on a text that is one single-byte
\* character makes it absent.
C16_NeverEmptyPart ==
    [][ /\ (search_query' = None \/ Len(search_query'[1]) > 0)
        /\ (InSearch /\ key' = "Backspace" /\ search_query = None) =>
              (search_query' = None /\ status' = "running")
        /\ (InSearch /\ key' = "Backspace" /\ IsSome(search_query)
                     /\ ByteLen(UnwrapOr(search_query, <<>>)) = 1) =>
              (search_query' = None /\ status' = "running") ]_vars

\* C17: the UI mode changes only from FileList to SearchPopup on '/' and from
\* SearchPopup to FileList on Enter, the latter leaving the search text as it
\* is; InfoPopup is never entered.
C17_ModeTransitions ==
    [][ /\ ui_mode' # "InfoPopup"
        /\ ui_mode' # ui_mode =>
              \/ ui_mode = "FileList" /\ key' = "/" /\ ui_mode' = "SearchPopup"
              \/ /\ ui_mode = "SearchPopup" /\ key' = "Enter" /\ ui_mode' = "FileList"
                 /\ search_query' = search_query
        /\ (pc = "events" /\ ui_mode = "FileList" /\ key' = "/") => ui_mode' = "SearchPopup"
        /\ (pc = "events" /\ ui_mode = "SearchPopup" /\ key' = "Enter") =>
              (ui_mode' = "FileList" /\ search_query' = search_query) ]_vars

\* Back in the file list by Enter in the popup, the typed filter kept: nothing
\* was ever loaded, so the Enter was not the file list's.
C17_Witness ==
    /\ pc = "eot" /\ key = "Enter" /\ status = "running"
    /\ ui_mode = "FileList"
    /\ IsSome(search_query)
    /\ active_song = None /\ am.queue = <<>>

\* C18: handling a key in SearchPopup mode changes none of selection index,
\* playing index, active track, elapsed, paused flag, volume, library and
\* alive flag; handling a key in FileList mode does not change the search
\* text; a key with no binding in the current mode changes nothing.
C18_DispatchGatedByMode ==
    [][ /\ (pc = "events" /\ ui_mode = "SearchPopup") =>
              UNCHANGED << selected_file_ix, playing_file_ix, active_song, am, files, alive >>
        /\ (pc = "events" /\ ui_mode = "FileList") => UNCHANGED search_query
        /\ (pc = "events" /\ key' = "other") =>
              UNCHANGED << selected_file_ix, playing_file_ix, active_song, am, files,
                           alive, search_query, ui_mode, status >> ]_vars

\* A character was just typed into the popup while a track is playing.
C18_Witness ==
    /\ pc = "eot" /\ key = "Char" /\ status = "running"
    /\ ui_mode = "SearchPopup" /\ IsSome(search_query)
    /\ IsSome(active_song) /\ ~am.paused /\ am.playback_progress > 0

\* C19: the engine starts paused; toggle_playback flips the paused flag on
\* every call, so two toggles restore it; play and pause are idempotent; and
\* the toggle key leaves the paused flag alone while no track is active.
C19_ToggleFlipsPaused ==
    /\ am.paused
    /\ [][ /\ (pc = "events" /\ ui_mode = "FileList" /\ key' = "p" /\ IsSome(active_song)) =>
                 am' = [am EXCEPT !.paused = ~am.paused]
           /\ (pc = "events" /\ ui_mode = "FileList" /\ key' = "p" /\ active_song = None) =>
                 am' = am
           /\ toggle_playback(am').paused = ~am'.paused
           /\ toggle_playback(toggle_playback(am')) = am'
           /\ ~play(am').paused /\ play(play(am')) = play(am')
           /\ pause(am').paused /\ pause(pause(am')) = pause(am')
           /\ am'.queue = <<>> => am'.paused ]_vars

\* The toggle key was just handled with a track active, and paused it.
C19_Witness ==
    /\ pc = "eot" /\ key = "p" /\ status = "running"
    /\ IsSome(active_song) /\ am.paused
    /\ am.playback_progress < active_song[1].duration

\* C20: once quit has set alive to false it is never set back to true; the
\* iteration in progress is finished (end-of-track check, render) and the next
\* test of the loop condition ends the loop, so no further iteration's update
\* or render runs.
C20_QuitEndsLoop ==
    [][ /\ ~alive => ~alive'
        /\ (pc = "events" /\ ui_mode = "FileList" /\ key' = "q") => (~alive' /\ pc' = "eot")
        /\ (~alive /\ pc = "loop") => (pc' = "done" /\ status' = "exited")
        /\ ~alive' => pc' \in {"eot", "render", "loop", "done"} ]_vars

\* main has returned Ok(()) after quit.
C20_Witness ==
    /\ pc = "done" /\ status = "exited"
    /\ ~alive
    /\ key = "none"

\* C20, as liveness under SpecFair: after quit, main returns.
C20_QuitTerminates == (~alive) ~> (pc = "done")

\* C21: in shuffle mode with more than one track in the library, an
\* end-of-track event moves the playing index to a different index, which is
\* a valid library index (not necessarily playing index + 1), and the track
\* at that index is the one loaded.
C21_ShufflePicksOtherValidIndex ==
    [][ (pc = "eot" /\ status = "running" /\ IsSome(active_song)
           /\ am.playback_progress >= active_song[1].duration
           /\ playback_mode = "Shuffle" /\ Len(files) > 1) =>
          /\ playing_file_ix' # playing_file_ix
          /\ playing_file_ix' >= 0 /\ playing_file_ix' < Len(files)
          /\ status' # "panic"
          /\ status' = "running" =>
                /\ active_song' = Some(files[playing_file_ix' + 1])
                /\ am'.queue = << files[playing_file_ix' + 1].file_path >>
                /\ ~am'.paused /\ am'.playback_progress = 0 ]_vars

\* Shuffle just went from the last track of three back to the first one.
C21_Witness ==
    /\ pc = "render" /\ eot = "shuffle" /\ status = "running"
    /\ playback_mode = "Shuffle" /\ Len(files) = 3
    /\ playing_file_ix = 0 /\ active_song = Some(files[1])
    /\ key = "ShiftRight"

\* C22: within one loop iteration the steps run in the order advance elapsed
\* by dt, end-of-track check with its track change, at most one input event,
\* render; so the end-of-track check of an iteration never acts on what an
\* input event of the same iteration did.
C22_EndOfTrackBeforeInput ==
    [][ /\ (pc = "advance" /\ pc' # "done") => pc' = "eot"
        /\ (pc = "eot" /\ pc' # "done") => pc' = "events"
        /\ (pc = "events" /\ pc' # "done") => pc' = "render"
        /\ (pc = "render" /\ pc' # "done") => pc' = "loop"
        /\ (pc = "eot" /\ eot' \in {"next", "pause", "panic", "shuffle"}) => key = "none" ]_vars

\* C22, the order PlayerApp::update has: advance, input event, end-of-track
\* check, render; the input event acts on the state before the end-of-track
\* check of its iteration.
C22_InputBeforeEndOfTrack ==
    [][ /\ (pc = "loop" /\ pc' # "done") => pc' = "advance"
        /\ (pc = "advance" /\ pc' # "done") => pc' = "events"
        /\ (pc = "events" /\ pc' # "done") => pc' = "eot"
        /\ (pc = "eot" /\ pc' # "done") => pc' = "render"
        /\ (pc = "render" /\ pc' # "done") => pc' = "loop"
        /\ (pc = "events") => UNCHANGED eot ]_vars

\* C23: once a track is active, whatever rescans have changed the library's
\* size since (down to empty included), every use of the selection index or
\* the playing index is safe: Enter reads the library at an index below its
\* length, the end-of-track check does not compute len - 1 on an empty
\* library and loads only from an index below the length, and none of these
\* steps ends in an out-of-bounds access or an arithmetic underflow.
C23_IndicesSafeAfterRescan ==
    [][ IsSome(active_song) =>
          /\ (pc = "events" /\ ui_mode = "FileList" /\ key' = "Enter") =>
                (selected_file_ix < Len(files) /\ status' # "panic")
          /\ (pc = "events" /\ ui_mode = "FileList" /\ key' \in {"Down", "Up"}) =>
                status' # "panic"
          /\ (pc = "eot" /\ am.playback_progress >= active_song[1].duration) =>
                (Len(files) > 0 /\ status' # "panic")
          /\ (pc = "eot" /\ eot' = "next") => playing_file_ix' < Len(files) ]_vars

\* C23, the part that holds: while the library is not empty, the end-of-track
\* check reads it only below its length, whatever the playing index is.
C23_EndOfTrackSafeOnNonEmpty ==
    [][ (pc = "eot" /\ IsSome(active_song) /\ Len(files) > 0) =>
          /\ status' # "panic"
          /\ eot' = "next" => playing_file_ix' < Len(files) ]_vars

\* C24: in every reachable state in which the active-track snapshot is
\* present, the playing index is an index of the library and the track there
\* has the snapshot's file path (after a rescan, after a failed load on Enter
\* and after a failed load by the end-of-track check as well).
C24_SnapshotIsTrackAtPlayingIndex ==
    IsSome(active_song) =>
        /\ playing_file_ix < Len(files)
        /\ files[playing_file_ix + 1].file_path = active_song[1].file_path

\* C24, the part that holds: every step that changes the snapshot and leaves
\* the program running makes it the library track at the playing index.
C24_SnapshotSetFromPlayingIndex ==
    [][ (active_song' # active_song /\ status' = "running") =>
          /\ playing_file_ix' < Len(files')
          /\ active_song' = Some(files'[playing_file_ix' + 1]) ]_vars

============================================================================
